---- MODULE Spec2Model ----
(***************************************************************************)
(* Model of the training / persistence / inference helpers of the          *)
(* it_equipment dashboard (src/src/app_core.py, src/src/evaluation.py).    *)
(*                                                                         *)
(* Options are sequences: <<>> is None, <<v>> is the value v.              *)
(* Rational numbers (metrics, probabilities) are pairs <<num, den>>.       *)
(* Paths are sequences of components: "models/m.pkl" is <<"models",        *)
(* "m.pkl">>; the empty sequence is the current directory.                 *)
(***************************************************************************)
EXTENDS Integers, Sequences, FiniteSets, TLC

\* ------------------------------------------------------------------ bounds
\* Largest number of rows of the loaded dataset.
MaxRows == 3
\* Largest length of the arrays given to the metrics engine on its own.
MaxLen == 3

\* Models compared in one table.
MaxModels == 2

\* ------------------------------------------------------- generic helpers
Range(s) == { s[i] : i \in 1..Len(s) }

None == <<>>

Some(v) == <<v>>

IsNone(o) == Len(o) = 0

RECURSIVE SeqSum(_)
SeqSum(s) == IF Len(s) = 0 THEN 0 ELSE s[1] + SeqSum(Tail(s))

\* The subsequence of s at the increasing positions that satisfy Keep.
RECURSIVE SelectIdx(_, _, _)
SelectIdx(s, keep, i) ==
    IF i > Len(s) THEN <<>>
    ELSE (IF i \in keep THEN <<s[i]>> ELSE <<>>) \o SelectIdx(s, keep, i + 1)

Count(s, P(_)) == Cardinality({ i \in 1..Len(s) : P(s[i]) })

\* Sorted sequence of a finite set of integers.
RECURSIVE SortedSeq(_)
SortedSeq(S) ==
    IF S = {} THEN <<>>
    ELSE LET m == CHOOSE x \in S : \A y \in S : x <= y
         IN <<m>> \o SortedSeq(S \ {m})

\* ------------------------------------------------------------- exceptions
Err(kind, msg) == [kind |-> kind, msg |-> msg]

NoErr == Err("", <<>>)

\* ------------------------------------------------------------ file system
\* State of the local storage: the directories other than the current one,
\* and the content of every regular file.
Exists(fs, path) == path \in fs.dirs \/ path \in DOMAIN fs.files

Dirname(path) == SubSeq(path, 1, Len(path) - 1)

Prefixes(path) == { SubSeq(path, 1, k) : k \in 1..Len(path) }

\* os.makedirs(d, exist_ok=True): result [err, fs].  The empty path is not
\* a directory that can be made: os.mkdir("") raises FileNotFoundError.
Makedirs(fs, d) ==
    IF d = <<>>
    THEN [err |-> Err("FileNotFoundError", d), fs |-> fs]
    ELSE IF \E p \in Prefixes(d) : p \in DOMAIN fs.files
    THEN [err |-> Err("FileExistsError", d), fs |-> fs]
    ELSE [err |-> NoErr, fs |-> [fs EXCEPT !.dirs = @ \cup Prefixes(d)]]

\* open(path, "wb") followed by the write of the bytes: result [err, fs].
WriteFile(fs, path, bytes) ==
    IF path \in fs.dirs
    THEN [err |-> Err("IsADirectoryError", path), fs |-> fs]
    ELSE IF Dirname(path) # <<>> /\ Dirname(path) \notin fs.dirs
    THEN [err |-> Err("FileNotFoundError", path), fs |-> fs]
    ELSE [err |-> NoErr,
          fs |-> [fs EXCEPT !.files =
                    [q \in DOMAIN @ \cup {path} |->
                        IF q = path THEN bytes ELSE @[q]]]]

\* open(path, "wb"): result [err, fs]; the file is created, or emptied when
\* it is there.
OpenTruncate(fs, path) == WriteFile(fs, path, <<>>)

\* The bytes of a file after a write of chunk at position pos; the
\* positions a write skips past the end read as zeros.
Hole == [tag |-> "zeros"]

WriteAt(bytes, pos, chunk) ==
    [k \in 1..(IF pos > Len(bytes) THEN pos ELSE Len(bytes)) |->
        IF k = pos THEN chunk ELSE IF k <= Len(bytes) THEN bytes[k] ELSE Hole]

PutFile(fs, path, bytes) ==
    [fs EXCEPT !.files = [q \in DOMAIN @ |-> IF q = path THEN bytes ELSE @[q]]]

\* ------------------------------------------------------------ model names
SupportedModels ==
    {"LogisticRegression", "KNN", "RandomForest",
     "GradientBoosting", "ExtraTrees", "MLPClassifier"}

\* Names a caller may pass: the supported ones, a wrong-case spelling and
\* an unknown one.
ModelNames == SupportedModels \cup {"knn", "UnknownModel"}

\* The classifier object a builder of models.py returns (not yet fitted).
Classifier(family) == [family |-> family]

\* build_model_by_name: result [err, model]; model is an option.  The
\* message is the (Russian) text "unknown model: " followed by the name.
build_model_by_name_lower(name) ==
    IF name \in SupportedModels \cup {"knn"}
    THEN [err |-> NoErr, model |-> Some(Classifier(name))]
    ELSE [err |-> Err("ValueError", <<"unknown model: ", name>>),
          model |-> None]

build_model_by_name(name) ==
    IF name \in SupportedModels
    THEN [err |-> NoErr, model |-> Some(Classifier(name))]
    ELSE [err |-> Err("ValueError", <<"unknown model: ", name>>),
          model |-> None]

\* ---------------------------------------------------------------- dataset
\* Column lists of the configuration (config.json is read by load_config).
categorical_cols == <<"device_type">>

numeric_cols == <<"device_age_years">>

target_column == "needs_upgrade"

feature_cols == categorical_cols \o numeric_cols

AllColumns == Range(feature_cols) \cup {target_column}

\* A missing cell (NaN).
NaN == -1

\* Target cells: 0, 1, a value that is not a class (2) and a missing cell.
TargetVals == {0, 1, 2, NaN}

NoTarget == AllColumns \ {target_column}

NoAge == AllColumns \ {"device_age_years", target_column}

\* The column sets of the datasets considered: complete, without the target,
\* without a numeric feature (and the target).
ColumnSets == { AllColumns, NoTarget, NoAge }

RowsOver(cols) ==
    IF cols = AllColumns
    THEN [device_type : {"pc", "laptop"}, device_age_years : {3},
          needs_upgrade : TargetVals]
    ELSE IF cols = NoTarget
    THEN [device_type : {"pc", "laptop"}, device_age_years : {3}]
    ELSE [device_type : {"pc", "laptop"}]

SeqsUpTo(S, n) == UNION { [1..k -> S] : k \in 0..n }

DataFrames ==
    UNION { { [cols |-> c, rows |-> r] : r \in SeqsUpTo(RowsOver(c), MaxRows) }
            : c \in ColumnSets }

\* df[cols]: result [err, val]; KeyError when a column is absent.
SelectColumns(df, cols) ==
    IF \E i \in 1..Len(cols) : cols[i] \notin df.cols
    THEN [err |-> Err("KeyError", cols), val |-> <<>>]
    ELSE [err |-> NoErr,
          val |-> [i \in 1..Len(df.rows) |->
                     [j \in 1..Len(cols) |-> df.rows[i][cols[j]]]]]

\* df[target_column]: result [err, val].
SelectColumnOrZero(df, col) ==
    IF col \notin df.cols
    THEN [err |-> NoErr, val |-> [i \in 1..Len(df.rows) |-> 0]]
    ELSE [err |-> NoErr, val |-> [i \in 1..Len(df.rows) |-> df.rows[i][col]]]

SelectColumn(df, col) ==
    IF col \notin df.cols
    THEN [err |-> Err("KeyError", <<col>>), val |-> <<>>]
    ELSE [err |-> NoErr, val |-> [i \in 1..Len(df.rows) |-> df.rows[i][col]]]

\* Series.astype(int).values: a missing cell cannot be cast (pandas raises a
\* ValueError); any other cell keeps its integral value, 2 included.
AstypeInt(col) ==
    IF \E i \in 1..Len(col) : col[i] = NaN
    THEN [err |-> Err("ValueError", <<"cannot convert NaN to integer">>), val |-> <<>>]
    ELSE [err |-> NoErr, val |-> col]

\* --------------------------------------------------- pipeline (library)
\* The scikit-learn Pipeline object.  Its estimator is abstracted as one that
\* memorises the training rows, as a forest of fully grown trees does: the
\* score of a class on a row is its frequency among the training rows with
\* the same features (among all training rows when there is none).  id is the identity of the Python
\* object.  The estimator's own predict takes the class with the highest
\* score and, as numpy's argmax does, the first one when two score the same.
NewPipeline(id, model) ==
    [id |-> id, family |-> model.family, has_proba |-> TRUE, nfit |-> 0,
     classes |-> <<>>, data |-> <<>>]

\* pipeline.fit(X, y): result [err, pipe].
PipelineFit(pipe, X, y) ==
    IF Len(X) = 0
    THEN [err |-> Err("ValueError", <<"0 samples">>), pipe |-> pipe]
    ELSE [err |-> NoErr,
          pipe |-> [pipe EXCEPT !.nfit = @ + 1,
                                !.classes = SortedSeq(Range(y)),
                                !.data = [i \in 1..Len(X) |-> <<X[i], y[i]>>]]]

Match(pipe, x) ==
    LET same == { i \in 1..Len(pipe.data) : pipe.data[i][1] = x }
    IN IF same = {} THEN 1..Len(pipe.data) ELSE same

ClassCount(pipe, x, k) ==
    Cardinality({ i \in Match(pipe, x) : pipe.data[i][2] = pipe.classes[k] })

\* One row of predict_proba, column k: a rational <<num, den>>.
ProbaOf(pipe, x, k) == <<ClassCount(pipe, x, k), Cardinality(Match(pipe, x))>>

PredictOne(pipe, x) ==
    LET ks == 1..Len(pipe.classes)
        best == { k \in ks : \A j \in ks :
                    ClassCount(pipe, x, k) >= ClassCount(pipe, x, j) }
        first == CHOOSE k \in best : \A j \in best : k <= j
    IN pipe.classes[first]

\* pipeline.predict(X): result [err, val].
PipelinePredict(pipe, X) ==
    IF pipe.nfit = 0
    THEN [err |-> Err("NotFittedError", <<>>), val |-> <<>>]
    ELSE IF Len(X) = 0
    THEN [err |-> Err("ValueError", <<"0 samples">>), val |-> <<>>]
    ELSE [err |-> NoErr, val |-> [i \in 1..Len(X) |-> PredictOne(pipe, X[i])]]

\* pipeline.predict_proba(X)[:, 1]: result [err, val]; the second column
\* does not exist when the estimator saw a single class.
PredictProbaColumn1(pipe, X) ==
    IF pipe.nfit = 0
    THEN [err |-> Err("NotFittedError", <<>>), val |-> <<>>]
    ELSE IF Len(X) = 0
    THEN [err |-> Err("ValueError", <<"0 samples">>), val |-> <<>>]
    ELSE IF Len(pipe.classes) < 2
    THEN [err |-> Err("IndexError", <<"index 1 is out of bounds">>), val |-> <<>>]
    ELSE [err |-> NoErr, val |-> [i \in 1..Len(X) |-> ProbaOf(pipe, X[i], 2)]]

\* ------------------------------------------------------------ rationals
Zero == <<0, 1>>

IsNumber(v) == Len(v) = 2 /\ v[2] > 0

\* a >= b, a = b, a > b for rationals with positive denominators.
Geq(a, b) == a[1] * b[2] >= b[1] * a[2]

Eq(a, b) == a[1] * b[2] = b[1] * a[2]

Gt(a, b) == a[1] * b[2] > b[1] * a[2]

Half == <<1, 2>>

\* int -> float
ToFloat(n) == <<n, 1>>

\* num / den with zero_division=0.
DivOrOne(num, den) == IF den = 0 THEN <<1, 1>> ELSE <<num, den>>

SafeDiv(num, den) == IF den = 0 THEN Zero ELSE <<num, den>>

\* ------------------------------------------------ metrics (evaluation.py)
Null == <<>>

MetricNames == {"accuracy", "precision", "recall", "f1", "roc_auc"}

TP(yt, yp) == Cardinality({ i \in 1..Len(yt) : yt[i] = 1 /\ yp[i] = 1 })

FP(yt, yp) == Cardinality({ i \in 1..Len(yt) : yt[i] # 1 /\ yp[i] = 1 })

FN(yt, yp) == Cardinality({ i \in 1..Len(yt) : yt[i] = 1 /\ yp[i] # 1 })

\* accuracy_score
AccuracyCount(yt, yp) ==
    <<Cardinality({ i \in 1..Len(yt) : yt[i] = yp[i] }), 1>>

AccuracyScore(yt, yp) ==
    <<Cardinality({ i \in 1..Len(yt) : yt[i] = yp[i] }), Len(yt)>>

\* The check precision_score, recall_score and f1_score make with the
\* default average="binary", pos_label=1: more than two labels, or two
\* labels without the positive one, are refused with a ValueError.
BinaryTargetsOk(yt, yp) ==
    LET labels == Range(yt) \cup Range(yp)
    IN /\ Cardinality(labels) <= 2
       /\ (Cardinality(labels) = 2 => 1 \in labels)

\* roc_auc_score(y_true, y_score): result [err, val].  Undefined (a
\* ValueError) unless y_true holds exactly two classes; the larger label is
\* the positive class and the score is the share of (positive, negative)
\* pairs ranked correctly, a tied pair counting one half.
RocAucScore(yt, ys) ==
    LET classes == Range(yt)
        pos == CHOOSE c \in classes : \A d \in classes : c >= d
        P == { i \in 1..Len(yt) : yt[i] = pos }
        N == { i \in 1..Len(yt) : yt[i] # pos }
        gt == Cardinality({ pr \in P \X N : Gt(ys[pr[1]], ys[pr[2]]) })
        ties == Cardinality({ pr \in P \X N : Eq(ys[pr[1]], ys[pr[2]]) })
    IN IF Cardinality(classes) # 2
       THEN [err |-> Err("ValueError", <<"roc_auc undefined">>), val |-> Null]
       ELSE [err |-> NoErr,
             val |-> <<2 * gt + ties, 2 * Cardinality(P) * Cardinality(N)>>]

\* The four metrics that are always computed.
BaseMetrics(yt, yp) ==
    [accuracy |-> AccuracyScore(yt, yp),
     precision |-> SafeDiv(TP(yt, yp), TP(yt, yp) + FP(yt, yp)),
     recall |-> SafeDiv(TP(yt, yp), TP(yt, yp) + FN(yt, yp)),
     f1 |-> SafeDiv(2 * TP(yt, yp), 2 * TP(yt, yp) + FP(yt, yp) + FN(yt, yp))]

WithRocAuc(m, v) ==
    [k \in DOMAIN m \cup {"roc_auc"} |-> IF k = "roc_auc" THEN v ELSE m[k]]

\* evaluate_binary_classifier(y_true, y_pred_labels, y_pred_proba): result
\* [err, metrics]; y_pred_proba is an option.
evaluate_roc_auc_default_none(y_true, y_pred_labels, y_pred_proba) ==
    IF ~BinaryTargetsOk(y_true, y_pred_labels)
    THEN [err |-> Err("ValueError", <<"multiclass target">>), metrics |-> <<>>]
    ELSE LET auc == IF IsNone(y_pred_proba)
                    THEN [err |-> NoErr, val |-> Null]
                    ELSE RocAucScore(y_true, y_pred_proba[1])
         IN [err |-> NoErr,
             metrics |-> WithRocAuc(BaseMetrics(y_true, y_pred_labels),
                                    IF auc.err = NoErr THEN auc.val ELSE Null)]

evaluate_no_except(y_true, y_pred_labels, y_pred_proba) ==
    IF ~BinaryTargetsOk(y_true, y_pred_labels)
    THEN [err |-> Err("ValueError", <<"multiclass target">>), metrics |-> <<>>]
    ELSE IF IsNone(y_pred_proba)
    THEN [err |-> NoErr, metrics |-> BaseMetrics(y_true, y_pred_labels)]
    ELSE LET auc == RocAucScore(y_true, y_pred_proba[1])
         IN IF auc.err # NoErr
            THEN [err |-> auc.err, metrics |-> <<>>]
            ELSE [err |-> NoErr,
                  metrics |-> WithRocAuc(BaseMetrics(y_true, y_pred_labels), auc.val)]

evaluate_binary_classifier(y_true, y_pred_labels, y_pred_proba) ==
    IF ~BinaryTargetsOk(y_true, y_pred_labels)
    THEN [err |-> Err("ValueError", <<"multiclass target">>), metrics |-> <<>>]
    ELSE IF IsNone(y_pred_proba)
    THEN [err |-> NoErr, metrics |-> BaseMetrics(y_true, y_pred_labels)]
    ELSE LET auc == RocAucScore(y_true, y_pred_proba[1])
         IN [err |-> NoErr,
             metrics |-> WithRocAuc(BaseMetrics(y_true, y_pred_labels),
                                    IF auc.err = NoErr THEN auc.val ELSE Null)]

\* ------------------------------------------------- joblib (persistence)
\* joblib.dump pickles the object: the bytes hold the object's attributes,
\* not its identity.  The bytes are modelled as two chunks.
SerializeUnfitted(pipe) ==
    << [tag |-> "pipeline", family |-> pipe.family, has_proba |-> pipe.has_proba],
       [tag |-> "fitted", nfit |-> 0, classes |-> <<>>, data |-> <<>>] >>

Serialize(pipe) ==
    << [tag |-> "pipeline", family |-> pipe.family, has_proba |-> pipe.has_proba],
       [tag |-> "fitted", nfit |-> pipe.nfit, classes |-> pipe.classes,
        data |-> pipe.data] >>

WellFormed(bytes) ==
    /\ Len(bytes) = 2
    /\ bytes[1].tag = "pipeline"
    /\ bytes[2].tag = "fitted"

\* joblib.load unpickles into a new object, whose identity is id: result
\* [err, pipe]; pipe is an option.
Deserialize(bytes, id) ==
    IF ~WellFormed(bytes)
    THEN [err |-> Err("UnpicklingError", <<>>), pipe |-> None]
    ELSE [err |-> NoErr,
          pipe |-> Some([id |-> id, family |-> bytes[1].family,
                         has_proba |-> bytes[1].has_proba,
                         nfit |-> bytes[2].nfit, classes |-> bytes[2].classes,
                         data |-> bytes[2].data])]

\* ------------------------------------------------------------ app_core.py
\* The outcome of one call: the exception raised (NoErr on return), the
\* library calls made in order, the arguments of fit and of the metrics
\* engine (options), the metrics and the pipeline returned (options), the
\* outputs of predict_needs_upgrade (option) and the file system after.
Outcome(fs) ==
    [err |-> NoErr, events |-> <<>>, fit |-> None, eval |-> None,
     metrics |-> None, ret |-> None, out |-> None, fs |-> fs]

Raise(o, err) == [o EXCEPT !.err = err]

Event(o, e) == [o EXCEPT !.events = Append(@, e)]

\* build_pipeline(model_name, categorical_cols, numeric_cols): result
\* [err, pipe]; id is the identity of the new Pipeline object.
build_pipeline_cached(model_name, cat, num, id) ==
    LET m == build_model_by_name(model_name)
    IN IF m.err # NoErr
       THEN [err |-> m.err, pipe |-> None]
       ELSE [err |-> NoErr, pipe |-> Some(NewPipeline(1, m.model[1]))]

build_pipeline(model_name, cat, num, id) ==
    LET m == build_model_by_name(model_name)
    IN IF m.err # NoErr
       THEN [err |-> m.err, pipe |-> None]
       ELSE [err |-> NoErr, pipe |-> Some(NewPipeline(id, m.model[1]))]

\* X, y of a frame: df[cat + num] and df[target].astype(int).values.
ExtractXy(df, tc, cat, num) ==
    LET X == SelectColumns(df, cat \o num)
        t == SelectColumn(df, tc)
        y == AstypeInt(t.val)
    IN IF X.err # NoErr THEN [err |-> X.err, X |-> <<>>, y |-> <<>>]
       ELSE IF t.err # NoErr THEN [err |-> t.err, X |-> <<>>, y |-> <<>>]
       ELSE IF y.err # NoErr THEN [err |-> y.err, X |-> <<>>, y |-> <<>>]
       ELSE [err |-> NoErr, X |-> X.val, y |-> y.val]

\* The arguments of pipeline.fit in fit_model_and_evaluate: the train
\* partition.
FitArgsTrainAndTest(tr, te) == [X |-> tr.X \o te.X, y |-> tr.y \o te.y]

FitArgs(tr, te) == [X |-> tr.X, y |-> tr.y]

\* fit_model_and_evaluate(df_train, df_test, target_column, categorical_cols,
\* numeric_cols, model_name).  id is the identity the new Pipeline object
\* gets.
fit_model_and_evaluate(df_train, df_test, tc, cat, num, model_name, id, fs) ==
    LET o0 == Outcome(fs)
        tr == ExtractXy(df_train, tc, cat, num)
        te == ExtractXy(df_test, tc, cat, num)
        bp == build_pipeline(model_name, cat, num, id)
        o1 == Event(o0, "build_pipeline")
        args == FitArgs(tr, te)
        ft == PipelineFit(bp.pipe[1], args.X, args.y)
        o2 == [Event(o1, "fit") EXCEPT !.fit = Some(args)]
        yp == PipelinePredict(ft.pipe, te.X)
        o3 == Event(o2, "predict")
        pr == PredictProbaColumn1(ft.pipe, te.X)
        o4 == IF ft.pipe.has_proba THEN Event(o3, "predict_proba") ELSE o3
        y_proba == IF ft.pipe.has_proba THEN Some(pr.val) ELSE None
        ev == evaluate_binary_classifier(te.y, yp.val, y_proba)
        o5 == [Event(o4, "evaluate") EXCEPT
                 !.eval = Some([y_true |-> te.y, y_pred |-> yp.val,
                                y_proba |-> y_proba])]
    IN IF tr.err # NoErr THEN Raise(o0, tr.err)
       ELSE IF te.err # NoErr THEN Raise(o0, te.err)
       ELSE IF bp.err # NoErr THEN Raise(o1, bp.err)
       ELSE IF ft.err # NoErr THEN Raise(o2, ft.err)
       ELSE IF yp.err # NoErr THEN Raise(o3, yp.err)
       ELSE IF ft.pipe.has_proba /\ pr.err # NoErr THEN Raise(o4, pr.err)
       ELSE IF ev.err # NoErr THEN Raise(o5, ev.err)
       ELSE [o5 EXCEPT !.metrics = Some(ev.metrics), !.ret = Some(ft.pipe)]

\* The last two statements of fit_on_full_and_save before its return:
\* os.makedirs(os.path.dirname(model_path), exist_ok=True) and
\* joblib.dump(pipeline, model_path).
SaveArtifact(o, pipe, model_path) ==
    LET md == Makedirs(o.fs, Dirname(model_path))
        o1 == [Event(o, "makedirs") EXCEPT !.fs = md.fs]
        wr == WriteFile(md.fs, model_path, Serialize(pipe))
        o2 == [Event(o1, "dump") EXCEPT !.fs = wr.fs]
    IN IF md.err # NoErr THEN Raise(o1, md.err)
       ELSE IF wr.err # NoErr THEN Raise(o2, wr.err)
       ELSE o2

\* fit_on_full_and_save(df, target_column, categorical_cols, numeric_cols,
\* model_name, model_path).
fit_on_full_and_save(df, tc, cat, num, model_name, model_path, id, fs) ==
    LET o0 == Outcome(fs)
        xy == ExtractXy(df, tc, cat, num)
        bp == build_pipeline(model_name, cat, num, id)
        o1 == Event(o0, "build_pipeline")
        ft == PipelineFit(bp.pipe[1], xy.X, xy.y)
        o2 == [Event(o1, "fit") EXCEPT !.fit = Some([X |-> xy.X, y |-> xy.y])]
        pr == PredictProbaColumn1(ft.pipe, xy.X)
        o3 == IF ft.pipe.has_proba THEN Event(o2, "predict_proba") ELSE o2
        y_proba == IF ft.pipe.has_proba THEN Some(pr.val) ELSE None
        yp == PipelinePredict(ft.pipe, xy.X)
        o4 == Event(o3, "predict")
        ev == evaluate_binary_classifier(xy.y, yp.val, y_proba)
        o5 == [Event(o4, "evaluate") EXCEPT
                 !.eval = Some([y_true |-> xy.y, y_pred |-> yp.val,
                                y_proba |-> y_proba])]
        sv == SaveArtifact([o5 EXCEPT !.metrics = Some(ev.metrics)],
                           ft.pipe, model_path)
    IN IF xy.err # NoErr THEN Raise(o0, xy.err)
       ELSE IF bp.err # NoErr THEN Raise(o1, bp.err)
       ELSE IF ft.err # NoErr THEN Raise(o2, ft.err)
       ELSE IF ft.pipe.has_proba /\ pr.err # NoErr THEN Raise(o3, pr.err)
       ELSE IF yp.err # NoErr THEN Raise(o4, yp.err)
       ELSE IF ev.err # NoErr THEN Raise(o5, ev.err)
       ELSE IF sv.err # NoErr THEN [sv EXCEPT !.metrics = None]
       ELSE [sv EXCEPT !.ret = Some(ft.pipe)]

\* load_model(model_path); id is the identity of the unpickled object.
load_model_isfile(model_path, id, fs) ==
    LET o0 == Event(Outcome(fs), "exists")
        o1 == Event(o0, "load")
        ld == Deserialize(fs.files[model_path], id)
    IN IF model_path \notin DOMAIN fs.files
       THEN Raise(o0, Err("FileNotFoundError", model_path))
       ELSE IF ld.err # NoErr THEN Raise(o1, ld.err)
       ELSE [o1 EXCEPT !.ret = ld.pipe]

load_model(model_path, id, fs) ==
    LET o0 == Event(Outcome(fs), "exists")
        o1 == Event(o0, "load")
        ld == Deserialize(fs.files[model_path], id)
    IN IF ~Exists(fs, model_path)
       THEN Raise(o0, Err("FileNotFoundError", model_path))
       ELSE IF model_path \in fs.dirs
       THEN Raise(o1, Err("IsADirectoryError", model_path))
       ELSE IF ld.err # NoErr THEN Raise(o1, ld.err)
       ELSE [o1 EXCEPT !.ret = ld.pipe]

\* labels = (proba >= 0.5).astype(int)
ThresholdStrict(proba) ==
    [i \in 1..Len(proba) |-> IF Gt(proba[i], Half) THEN 1 ELSE 0]

Threshold(proba) ==
    [i \in 1..Len(proba) |-> IF Geq(proba[i], Half) THEN 1 ELSE 0]

\* predict_needs_upgrade(model, df_inputs, feature_cols)
predict_needs_upgrade_zero_scores(model, df_inputs, cols, fs) ==
    LET o0 == Outcome(fs)
        X == SelectColumns(df_inputs, cols)
        pr == PredictProbaColumn1(model, X.val)
        o1 == Event(o0, "predict_proba")
        yp == PipelinePredict(model, X.val)
        o2 == Event(o0, "predict")
        proba == IF model.has_proba THEN pr.val
                 ELSE [i \in 1..Len(yp.val) |-> Zero]
    IN IF X.err # NoErr THEN Raise(o0, X.err)
       ELSE IF model.has_proba /\ pr.err # NoErr THEN Raise(o1, pr.err)
       ELSE IF ~model.has_proba /\ yp.err # NoErr THEN Raise(o2, yp.err)
       ELSE [(IF model.has_proba THEN o1 ELSE o2) EXCEPT
               !.out = Some([labels |-> Threshold(proba), proba |-> proba])]

predict_needs_upgrade(model, df_inputs, cols, fs) ==
    LET o0 == Outcome(fs)
        X == SelectColumns(df_inputs, cols)
        pr == PredictProbaColumn1(model, X.val)
        o1 == Event(o0, "predict_proba")
        yp == PipelinePredict(model, X.val)
        o2 == Event(o0, "predict")
        proba == IF model.has_proba THEN pr.val
                 ELSE [i \in 1..Len(yp.val) |-> ToFloat(yp.val[i])]
    IN IF X.err # NoErr THEN Raise(o0, X.err)
       ELSE IF model.has_proba /\ pr.err # NoErr THEN Raise(o1, pr.err)
       ELSE IF ~model.has_proba /\ yp.err # NoErr THEN Raise(o2, yp.err)
       ELSE [(IF model.has_proba THEN o1 ELSE o2) EXCEPT
               !.out = Some([labels |-> Threshold(proba), proba |-> proba])]

\* ------------------------------------------------------------------ state
VARIABLES
    df,       \* the dataset the dashboard has loaded
    fs,       \* the local storage
    saved,    \* history: for each path, the pipeline object last dumped there
    last,     \* the last call and its outcome
    writers   \* the saves in progress: each concurrent caller's position in
              \* fit_on_full_and_save (empty where calls do not overlap)

vars == <<df, fs, saved, last, writers>>

\* Names the calls are made with: a supported one, a wrong-case spelling and
\* an unknown one.  The supported one is the family the estimator above
\* describes exactly (ExtraTreesClassifier grows every tree on all rows).
CallNames == {"ExtraTrees", "knn", "UnknownModel"}

\* Paths a caller saves to: a bare file name, and a file inside directories
\* that do not exist yet.
SavePaths == { <<"m.pkl">>, <<"out", "v1", "m.pkl">> }

\* An artifact written by another tool: a pipeline whose estimator has no
\* predict_proba.
LegacyPipeline ==
    [id |-> 0, family |-> "LinearSVC", has_proba |-> FALSE, nfit |-> 1,
     classes |-> <<0, 1>>,
     data |-> << <<(<<"pc", 3>>), 1>>, <<(<<"laptop", 3>>), 0>> >>]

Garbage == << [tag |-> "garbage"] >>

InitFiles ==
    [p \in { <<"models", "legacy.pkl">>, <<"models", "broken.pkl">> } |->
        IF p = <<"models", "legacy.pkl">> THEN Serialize(LegacyPipeline)
        ELSE Garbage]

LoadPaths ==
    SavePaths \cup DOMAIN InitFiles \cup { <<"models">>, <<"models", "missing.bin">> }

Call(op, name, path, test, o) ==
    [op |-> op, name |-> name, path |-> path, test |-> test,
     err |-> o.err, events |-> o.events, fit |-> o.fit, eval |-> o.eval,
     metrics |-> o.metrics, ret |-> o.ret, out |-> o.out]

Init ==
    /\ df \in DataFrames
    /\ fs = [dirs |-> { <<"models">> }, files |-> InitFiles]
    /\ saved = <<>>
    /\ writers = <<>>
    /\ last = Call("start", "", <<>>, {}, Outcome(fs))

Rows(d, keep) == [cols |-> d.cols, rows |-> SelectIdx(d.rows, keep, 1)]

Indices == 1..Len(df.rows)

\* The identities of the objects that are alive: the pipeline the caller
\* holds and the ones the history remembers.
LiveIds ==
    { saved[p].id : p \in DOMAIN saved } \cup { last.ret[i].id : i \in 1..Len(last.ret) }

\* The identity of the next object created: one no live object has.
NewId == CHOOSE i \in 1..(Cardinality(LiveIds) + 1) : i \notin LiveIds

\* The test parts of the splits page_model_comparison makes with its default
\* test_size of 0.2: one row out of up to five, whichever the shuffle picks.
TestParts == { {i} : i \in Indices }

\* A train/test split of the loaded dataset, then fit_model_and_evaluate.
FitModelAndEvaluate ==
    \E name \in CallNames, test \in TestParts :
       \E o \in { fit_model_and_evaluate(Rows(df, Indices \ test), Rows(df, test),
                    target_column, categorical_cols, numeric_cols, name,
                    NewId, fs) } :
          /\ last' = Call("fit_model_and_evaluate", name, <<>>, test, o)
          /\ fs' = o.fs
          /\ UNCHANGED <<df, saved, writers>>

FitOnFullAndSave ==
    \E name \in CallNames, path \in SavePaths :
       \E o \in { fit_on_full_and_save(df, target_column, categorical_cols,
                    numeric_cols, name, path, NewId, fs) } :
          /\ last' = Call("fit_on_full_and_save", name, path, {}, o)
          /\ fs' = o.fs
          /\ saved' = IF o.err = NoErr
                      THEN [q \in DOMAIN saved \cup {path} |->
                              IF q = path THEN o.ret[1] ELSE saved[q]]
                      ELSE saved
          /\ UNCHANGED <<df, writers>>

LoadModel ==
    \E path \in LoadPaths :
       \E o \in { load_model(path, NewId, fs) } :
          /\ last' = Call("load_model", "", path, {}, o)
          /\ fs' = o.fs
          /\ UNCHANGED <<df, saved, writers>>

\* predict_needs_upgrade on the pipeline the last call returned (or was
\* given) and the loaded dataset; the caller keeps the pipeline.
PredictNeedsUpgrade ==
    /\ last.ret # None
    /\ \E o \in { predict_needs_upgrade(last.ret[1], df, feature_cols, fs) } :
          /\ last' = Call("predict_needs_upgrade", "", <<>>, {},
                          [o EXCEPT !.ret = last.ret])
          /\ fs' = o.fs
          /\ UNCHANGED <<df, saved, writers>>

Next ==
    \/ FitModelAndEvaluate
    \/ FitOnFullAndSave
    \/ LoadModel
    \/ PredictNeedsUpgrade

Spec == Init /\ [][Next]_vars

\* ------------------------------------------- the metrics engine on its own
\* evaluate_binary_classifier applied to every triple of arrays of one
\* length up to MaxLen: binary labels, and scores among 0, 0.5 and 1 or no
\* scores at all.
Scores == { Zero, Half, <<1, 1>> }

EvalInputs ==
    UNION { { [y_true |-> a, y_pred |-> b, y_proba |-> c] :
                a \in [1..n -> {0, 1}], b \in [1..n -> {0, 1}],
                c \in {None} \cup { Some(sc) : sc \in [1..n -> Scores] } }
            : n \in 1..MaxLen }

InitEval ==
    /\ df = [cols |-> AllColumns, rows |-> <<>>]
    /\ fs = [dirs |-> { <<"models">> }, files |-> InitFiles]
    /\ saved = <<>>
    /\ writers = <<>>
    /\ \E a \in EvalInputs :
         last = Call("input", "", <<>>, {}, [Outcome(fs) EXCEPT !.eval = Some(a)])

Evaluate ==
    /\ last.op = "input"
    /\ LET a == last.eval[1]
           r == evaluate_binary_classifier(a.y_true, a.y_pred, a.y_proba)
       IN last' = [last EXCEPT
                     !.op = "evaluate_binary_classifier",
                     !.err = r.err,
                     !.events = <<"evaluate">>,
                     !.metrics = IF r.err = NoErr THEN Some(r.metrics) ELSE None]
    /\ UNCHANGED <<df, fs, saved, writers>>

NextEval == Evaluate

SpecEval == InitEval /\ [][NextEval]_vars

\* ------------------------------------------- the comparison table on its own
\* Text is a sequence of one-character strings, except that a model name
\* is kept as one piece.
Digits == <<"0", "1", "2", "3", "4", "5", "6", "7", "8", "9">>

NanText == <<"n", "a", "n">>

\* v * 1000 rounded to the nearest integer.  (No metric of an array of up to
\* MaxLen rows lies halfway between two thousandths.)
Thousandths(v) == (2000 * v[1] + v[2]) \div (2 * v[2])

\* f"{v:.3f}" for a number v >= 0.
Format3(v) ==
    LET k == Thousandths(v)
    IN <<Digits[(k \div 1000) + 1], ".", Digits[((k \div 100) % 10) + 1],
         Digits[((k \div 10) % 10) + 1], Digits[(k % 10) + 1]>>

\* Python's truth value of a float or None.
Truthy(v) == v # Null /\ v[1] # 0

\* vals.get(key, float('nan')) formatted with .3f
FormatGet(vals, key) ==
    IF key \in DOMAIN vals THEN Format3(vals[key]) ELSE NanText

\* (vals.get('roc_auc') or float('nan')) formatted with .3f
FormatRocAuc(vals) ==
    IF "roc_auc" \in DOMAIN vals /\ Truthy(vals["roc_auc"])
    THEN Format3(vals["roc_auc"])
    ELSE NanText

\* The header of the table (its first header is the word for "model" in
\* Russian in the source) and the line under it.
TableHeader ==
    << <<"Model">>, <<"Accuracy">>, <<"Precision">>, <<"Recall">>, <<"F1">>,
       <<"ROC-AUC">> >>

TableRule == [i \in 1..Len(TableHeader) |-> <<"-", "-", "-">>]

TableRow(model_name, vals) ==
    << <<model_name>>, FormatGet(vals, "accuracy"), FormatGet(vals, "precision"),
       FormatGet(vals, "recall"), FormatGet(vals, "f1"), FormatRocAuc(vals) >>

\* metrics_to_markdown_table(metrics): the lines of the table, each the
\* sequence of its cells; metrics is the sequence of the (name, bundle)
\* items of the dict, in its iteration order.
metrics_to_markdown_table(metrics) ==
    <<TableHeader, TableRule>>
        \o [i \in 1..Len(metrics) |-> TableRow(metrics[i][1], metrics[i][2])]

\* The models page_model_comparison offers by default.
TableModels == {"LogisticRegression", "RandomForest", "GradientBoosting"}

\* Evaluations whose bundles go into the table: all right, all wrong (ROC-AUC
\* 0), a tie, a single class (ROC-AUC null) and one without scores (no
\* ROC-AUC entry).
TableInputs ==
    { [y_true |-> <<0, 1>>, y_pred |-> <<0, 1>>, y_proba |-> Some(<<Zero, <<1, 1>>>>)],
      [y_true |-> <<0, 1>>, y_pred |-> <<1, 0>>, y_proba |-> Some(<<(<<1, 1>>), Zero>>)],
      [y_true |-> <<0, 1>>, y_pred |-> <<0, 0>>, y_proba |-> Some(<<Half, Half>>)],
      [y_true |-> <<0, 0>>, y_pred |-> <<0, 0>>, y_proba |-> Some(<<Zero, Zero>>)],
      [y_true |-> <<0, 1, 1>>, y_pred |-> <<1, 1, 1>>, y_proba |-> None] }

TableBundles ==
    { evaluate_binary_classifier(a.y_true, a.y_pred, a.y_proba).metrics :
        a \in TableInputs }

\* The dicts page_model_comparison can build: up to MaxModels distinct
\* names, each with a bundle.
TableDicts ==
    { d \in SeqsUpTo(TableModels \X TableBundles, MaxModels) :
        \A i, j \in 1..Len(d) : i # j => d[i][1] # d[j][1] }

InitTable ==
    /\ df = [cols |-> AllColumns, rows |-> <<>>]
    /\ fs = [dirs |-> { <<"models">> }, files |-> InitFiles]
    /\ saved = <<>>
    /\ writers = <<>>
    /\ \E d \in TableDicts :
         last = Call("metrics", "", <<>>, {}, [Outcome(fs) EXCEPT !.eval = Some(d)])

Render ==
    /\ last.op = "metrics"
    /\ last' = [last EXCEPT
                  !.op = "metrics_to_markdown_table",
                  !.out = Some(metrics_to_markdown_table(last.eval[1]))]
    /\ UNCHANGED <<df, fs, saved, writers>>

NextTable == Render

SpecTable == InitTable /\ [][NextTable]_vars

\* ------------------------------------------------------ overlapping saves
\* Two callers (two sessions of the dashboard) run fit_on_full_and_save with
\* the same model_path.  The call is split where the operating system can
\* switch between them: the fit and the evaluation, which touch no shared
\* state; os.makedirs and the open(model_path, "wb") inside joblib.dump,
\* which creates or truncates the file; and each write of a chunk of the
\* pickle at the caller's own file position.  Nothing in the code locks the
\* file or writes to a temporary name first.
Writers == {"w1", "w2"}

WriterId(w) == IF w = "w1" THEN 1 ELSE 2

SharedPath == <<"models", "m.pkl">>

SaveNames == {"ExtraTrees", "RandomForest"}

SaveFrames ==
    { [cols |-> AllColumns,
       rows |-> << [device_type |-> "pc", device_age_years |-> 3, needs_upgrade |-> a],
                   [device_type |-> "laptop", device_age_years |-> 3,
                    needs_upgrade |-> 1 - a] >>] : a \in {0, 1} }

InitSave ==
    /\ df = [cols |-> AllColumns, rows |-> <<>>]
    /\ fs = [dirs |-> { <<"models">> }, files |-> InitFiles]
    /\ saved = <<>>
    /\ last = Call("start", "", <<>>, {}, Outcome(fs))
    /\ writers \in [Writers ->
                      { [pc |-> "start", df |-> d, name |-> n, pipe |-> None,
                         written |-> 0, overlap |-> FALSE] :
                          d \in SaveFrames, n \in SaveNames }]

\* Lines 110-121 of the call: X, y, build_pipeline, fit, predict_proba,
\* predict, evaluate.
FitStep(w) ==
    /\ writers[w].pc = "start"
    /\ \E o \in { fit_on_full_and_save(writers[w].df, target_column, categorical_cols,
                      numeric_cols, writers[w].name, SharedPath, WriterId(w), fs) } :
          writers' = [writers EXCEPT
                        ![w].pc = IF o.ret = None THEN "failed" ELSE "fitted",
                        ![w].pipe = o.ret]
    /\ UNCHANGED <<df, fs, saved, last>>

\* os.makedirs(dirname) and the open of the file by joblib.dump.
OpenStep(w) ==
    /\ writers[w].pc = "fitted"
    /\ LET md == Makedirs(fs, Dirname(SharedPath))
           op == OpenTruncate(md.fs, SharedPath)
           busy == \E v \in Writers \ {w} : writers[v].pc = "open"
       IN /\ fs' = op.fs
          /\ writers' = [v \in Writers |->
                           IF v = w
                           THEN [writers[v] EXCEPT !.pc = "open", !.overlap = busy]
                           ELSE [writers[v] EXCEPT !.overlap = @ \/ writers[v].pc = "open"]]
    /\ UNCHANGED <<df, saved, last>>

\* One write of joblib.dump; after the last one the file is closed, the
\* call returns and the history records the save.
WriteStep(w) ==
    /\ writers[w].pc = "open"
    /\ LET bytes == Serialize(writers[w].pipe[1])
           k == writers[w].written + 1
           finished == k = Len(bytes)
       IN /\ fs' = PutFile(fs, SharedPath, WriteAt(fs.files[SharedPath], k, bytes[k]))
          /\ writers' = [writers EXCEPT
                           ![w].written = k,
                           ![w].pc = IF finished THEN "done" ELSE "open"]
          /\ saved' = IF finished
                      THEN [q \in {SharedPath} |-> writers[w].pipe[1]]
                      ELSE saved
    /\ UNCHANGED <<df, last>>

AllSaved == \A w \in Writers : writers[w].pc = "done"

\* load_model(model_path) once both calls have returned.
LoadSaved ==
    /\ AllSaved
    /\ \E o \in { load_model(SharedPath, Cardinality(Writers) + 1, fs) } :
          last' = Call("load_model", "", SharedPath, {}, o)
    /\ UNCHANGED <<df, fs, saved, writers>>

NextSave ==
    \/ \E w \in Writers : FitStep(w)
    \/ \E w \in Writers : OpenStep(w)
    \/ \E w \in Writers : WriteStep(w)
    \/ LoadSaved

SpecSave == InitSave /\ [][NextSave]_vars

\* ----------------------------------------------------------------- claims
FitOps == {"fit_model_and_evaluate", "fit_on_full_and_save"}

Called(e) == e \in Range(last.events)

UnknownModelError(name) == Err("ValueError", <<"unknown model: ", name>>)

\* C1, the factory: every name outside the six supported ones is refused
\* with the unknown-model error, whose message holds the name.
C1_Factory ==
    \A n \in ModelNames \ SupportedModels :
        /\ build_model_by_name(n).err = UnknownModelError(n)
        /\ n \in Range(build_model_by_name(n).err.msg)
        /\ build_model_by_name(n).model = None

\* C1, the callers: a fit call with such a name raises, the error is the
\* unknown-model error whenever the call got as far as building the model,
\* and neither fit nor a write of the artifact happened.
C1_Callers ==
    (last.op \in FitOps /\ last.name \notin SupportedModels) =>
        /\ last.err # NoErr
        /\ last.ret = None
        /\ ~Called("fit") /\ ~Called("makedirs") /\ ~Called("dump")
        /\ Called("build_pipeline") => last.err = UnknownModelError(last.name)

\* C1: an unsupported model name (any name that is not, case-sensitively,
\* one of the six) makes build_model_by_name fail with an unknown-model
\* error naming it; in fit_model_and_evaluate and fit_on_full_and_save the
\* call fails before any fit and leaves the file system as it was.
C1_UnknownModel ==
    /\ [](C1_Factory /\ C1_Callers)
    /\ [][(last'.op \in FitOps /\ last'.name \notin SupportedModels)
            => fs' = fs]_vars

C1_Witness ==
    /\ last.op = "fit_on_full_and_save"
    /\ last.name = "knn"
    /\ last.err = UnknownModelError("knn")
    /\ Len(df.rows) = MaxRows

\* C2: load_model of a path that does not exist ends in FileNotFoundError,
\* load_model of a path that exists ends in anything but FileNotFoundError,
\* and load_model never changes the file system.
C2_LoadNotFound ==
    [][last'.op = "load_model" =>
         /\ fs' = fs
         /\ ~Exists(fs, last'.path) => last'.err = Err("FileNotFoundError", last'.path)
         /\ Exists(fs, last'.path) => last'.err.kind # "FileNotFoundError"]_vars

C2_Witness ==
    /\ last.op = "load_model"
    /\ last.path = <<"models", "missing.bin">>
    /\ last.err.kind = "FileNotFoundError"

\* The feature rows an input batch is made of.
FeatureRows == { <<"pc", 3>>, <<"laptop", 3>> }

Batches == SeqsUpTo(FeatureRows, MaxRows)

BatchFrame(X) ==
    [cols |-> Range(feature_cols),
     rows |-> [i \in 1..Len(X) |->
                 [device_type |-> X[i][1], device_age_years |-> X[i][2]]]]

\* What a pipeline answers on a batch: its labels, its scores, and the
\* outputs of predict_needs_upgrade.
Answers(pipe, X) ==
    <<PipelinePredict(pipe, X), PredictProbaColumn1(pipe, X),
      predict_needs_upgrade(pipe, BatchFrame(X), feature_cols, fs).out>>

\* C3: the pipeline load_model returns for an artifact written by
\* fit_on_full_and_save is another object than the pipeline that was saved
\* and answers every batch as that pipeline does.
C3_RoundTrip ==
    (last.op = "load_model" /\ last.err = NoErr /\ last.path \in DOMAIN saved) =>
        /\ last.ret[1].id # saved[last.path].id
        /\ \A X \in Batches :
              Answers(last.ret[1], X) = Answers(saved[last.path], X)
        /\ \E X \in Batches : PipelinePredict(last.ret[1], X).err = NoErr

C3_Witness ==
    /\ last.op = "load_model"
    /\ last.err = NoErr
    /\ last.path \in DOMAIN saved
    /\ last.ret[1].classes = <<0, 1>>
    /\ \E X \in Batches : PredictProbaColumn1(last.ret[1], X).val = <<Half>>

\* C4: with the target column or a listed feature column absent from the
\* dataset, both fit calls raise at once (a KeyError, before the pipeline is
\* even built), return nothing and leave the file system as it was.
C4_MissingColumn ==
    [][(last'.op \in FitOps /\ ~(AllColumns \subseteq df.cols)) =>
         /\ last'.err.kind = "KeyError"
         /\ last'.events = <<>>
         /\ last'.fit = None /\ last'.ret = None /\ last'.metrics = None
         /\ fs' = fs]_vars

C4_Witness ==
    /\ last.op = "fit_on_full_and_save"
    /\ last.name \in SupportedModels
    /\ last.path = <<"out", "v1", "m.pkl">>
    /\ df.cols = NoTarget
    /\ Len(df.rows) = MaxRows
    /\ last.err = Err("KeyError", <<target_column>>)

\* A row's features, in the order of categorical_cols + numeric_cols, and
\* its target cell.
FeaturesOf(row) == <<row.device_type, row.device_age_years>>

HasBinaryTarget(row) == row.needs_upgrade \in {0, 1}

SeqOfIdx(S) == SortedSeq(S)

\* The features and the labels of the rows of the loaded dataset at the
\* positions S, in order.
XAt(S) == [k \in 1..Cardinality(S) |-> FeaturesOf(df.rows[SeqOfIdx(S)[k]])]

RawLabelsAt(S) ==
    [k \in 1..Cardinality(S) |-> df.rows[SeqOfIdx(S)[k]].needs_upgrade]

\* The labels of the rows at S whose target is present and is 0 or 1.
CleanLabelsAt(S) ==
    RawLabelsAt({ i \in S : HasBinaryTarget(df.rows[i]) })

\* The positions of the rows a call fits on, and of those it evaluates on.
FitIdx == IF last.op = "fit_model_and_evaluate" THEN Indices \ last.test ELSE Indices

EvalIdx == IF last.op = "fit_model_and_evaluate" THEN last.test ELSE Indices

ArtifactAt(path) == Deserialize(fs.files[path], 0).pipe[1]

\* C5: whenever fit_on_full_and_save has fitted and evaluated the pipeline
\* and goes on to save it, the call returns, every parent directory of the
\* artifact path exists afterwards and the file at that path holds the
\* fitted pipeline -- for every path, a bare file name included.
C5_ArtifactWritten ==
    (last.op = "fit_on_full_and_save" /\ Called("makedirs")) =>
        /\ last.err = NoErr
        /\ Prefixes(Dirname(last.path)) \subseteq fs.dirs
        /\ last.path \in DOMAIN fs.files
        /\ WellFormed(fs.files[last.path])
        /\ ArtifactAt(last.path).data = last.ret[1].data

\* C6: the labels given to fit and to the metrics engine are those of the
\* rows whose target is present and is 0 or 1, the other rows being left
\* out; so each of them is 0 or 1.
C6_CleanLabels ==
    (last.op \in FitOps) =>
        /\ last.fit # None =>
             /\ last.fit[1].y = CleanLabelsAt(FitIdx)
             /\ Range(last.fit[1].y) \subseteq {0, 1}
        /\ last.eval # None =>
             /\ last.eval[1].y_true = CleanLabelsAt(EvalIdx)
             /\ Range(last.eval[1].y_true) \subseteq {0, 1}

\* C7: fit_model_and_evaluate gives fit the train rows and nothing else, the
\* pipeline it returns holds what was learnt from the train rows alone, and
\* the true labels and the predictions given to the metrics engine are
\* those of the test rows.
C7_TrainOnly ==
    (last.op = "fit_model_and_evaluate") =>
        /\ last.fit # None =>
             last.fit[1] = [X |-> XAt(Indices \ last.test),
                            y |-> RawLabelsAt(Indices \ last.test)]
        /\ last.eval # None =>
             /\ last.eval[1].y_true = RawLabelsAt(last.test)
             /\ Len(last.eval[1].y_pred) = Cardinality(last.test)
        /\ last.ret # None =>
             /\ last.ret[1].nfit = 1
             /\ last.ret[1].data =
                  [k \in 1..Cardinality(Indices \ last.test) |->
                     <<XAt(Indices \ last.test)[k], RawLabelsAt(Indices \ last.test)[k]>>]
             /\ last.eval[1].y_pred =
                  [k \in 1..Cardinality(last.test) |->
                     PredictOne(last.ret[1], XAt(last.test)[k])]
             /\ last.eval[1].y_proba =
                  Some([k \in 1..Cardinality(last.test) |->
                          ProbaOf(last.ret[1], XAt(last.test)[k], 2)])

\* A split in which the test row is unlike the train row in its features and
\* its label.
C7_Witness ==
    /\ last.op = "fit_model_and_evaluate"
    /\ last.ret # None
    /\ last.test = {1}
    /\ Len(df.rows) = 3
    /\ df.rows[1].device_type # df.rows[2].device_type
    /\ df.rows[1].device_type # df.rows[3].device_type
    /\ df.rows[1].needs_upgrade = 1
    /\ last.eval[1].y_pred # last.eval[1].y_true

\* The label the threshold 0.5 gives a score.
LabelAt(p) == IF 2 * p[1] >= p[2] THEN 1 ELSE 0

\* C8: the labels predict_needs_upgrade returns are its scores cut at 0.5,
\* a score of exactly 0.5 giving the label 1.
C8_Threshold ==
    (last.op = "predict_needs_upgrade" /\ last.out # None) =>
        /\ Len(last.out[1].labels) = Len(df.rows)
        /\ Len(last.out[1].proba) = Len(df.rows)
        /\ \A i \in 1..Len(df.rows) :
              last.out[1].labels[i] = LabelAt(last.out[1].proba[i])

C8_Witness ==
    /\ last.op = "predict_needs_upgrade"
    /\ last.out # None
    /\ \E i \in 1..Len(df.rows) :
          /\ 2 * last.out[1].proba[i][1] = last.out[1].proba[i][2]
          /\ last.out[1].labels[i] = 1

AllTargetsBinary ==
    /\ df.cols = AllColumns
    /\ \A i \in Indices : HasBinaryTarget(df.rows[i])

\* C9: wherever scores are available the label of a row is its score cut at
\* 0.5: the labels given to the metrics engine by a fit call that returned, and the
\* labels predict_needs_upgrade returns.  (Stated for the datasets whose
\* targets are all 0 or 1, where the second column of the scores is the
\* score of class 1.)
C9_UniformThreshold ==
    AllTargetsBinary =>
      /\ (last.op \in FitOps /\ last.err = NoErr /\ last.eval[1].y_proba # None) =>
            \A i \in 1..Len(last.eval[1].y_pred) :
                last.eval[1].y_pred[i] = LabelAt(last.eval[1].y_proba[1][i])
      /\ (last.op = "predict_needs_upgrade" /\ last.out # None) =>
            \A i \in 1..Len(last.out[1].labels) :
                last.out[1].labels[i] = LabelAt(last.out[1].proba[i])

\* C10 as stated: every bundle returned holds the five names, each with a
\* number, roc_auc possibly with null.
C10_FiveKeys ==
    (last.metrics # None) =>
        /\ DOMAIN last.metrics[1] = MetricNames
        /\ \A k \in MetricNames :
              \/ IsNumber(last.metrics[1][k])
              \/ (k = "roc_auc" /\ last.metrics[1][k] = Null)

\* C10, amended: every bundle returned holds accuracy, precision, recall and
\* f1, each with a number; it holds roc_auc, with a number or null, exactly
\* when scores were supplied, and has no roc_auc entry when none were.
C10_Bundle ==
    (last.metrics # None) =>
        LET m == last.metrics[1]
            given == last.eval[1].y_proba # None
        IN /\ MetricNames \ {"roc_auc"} \subseteq DOMAIN m
           /\ DOMAIN m \subseteq MetricNames
           /\ \A k \in MetricNames \ {"roc_auc"} : IsNumber(m[k])
           /\ given => /\ "roc_auc" \in DOMAIN m
                       /\ (m["roc_auc"] = Null \/ IsNumber(m["roc_auc"]))
           /\ ~given => "roc_auc" \notin DOMAIN m

C10_Witness ==
    /\ last.op = "evaluate_binary_classifier"
    /\ last.metrics # None
    /\ last.eval[1].y_proba = None
    /\ DOMAIN last.metrics[1] = MetricNames \ {"roc_auc"}
    /\ Len(last.eval[1].y_true) = MaxLen

Evaluated == last.op = "evaluate_binary_classifier"

BaseNames == MetricNames \ {"roc_auc"}

\* C11: with scores supplied and a single class in y_true,
\* evaluate_binary_classifier returns, roc_auc is null and accuracy,
\* precision, recall and f1 are numbers.
C11_SingleClassAuc ==
    (/\ Evaluated
     /\ last.eval[1].y_proba # None
     /\ Cardinality(Range(last.eval[1].y_true)) = 1) =>
        /\ last.err = NoErr
        /\ last.metrics # None
        /\ last.metrics[1]["roc_auc"] = Null
        /\ \A k \in BaseNames : IsNumber(last.metrics[1][k])

C11_Witness ==
    /\ Evaluated
    /\ last.eval[1].y_proba # None
    /\ last.eval[1].y_true = [i \in 1..MaxLen |-> 0]
    /\ Range(last.eval[1].y_pred) = {0, 1}
    /\ last.metrics # None
    /\ last.metrics[1]["roc_auc"] = Null

\* The number of rows with true label t and predicted label p.
Cell(t, p) ==
    Cardinality({ i \in 1..Len(last.eval[1].y_true) :
                    last.eval[1].y_true[i] = t /\ last.eval[1].y_pred[i] = p })

\* f = 2 * P * R / (P + R), with 0 where P + R = 0.
IsHarmonicMean(f, P, R) ==
    LET sum == <<P[1] * R[2] + R[1] * P[2], P[2] * R[2]>>
        twice == <<2 * P[1] * R[1], P[2] * R[2]>>
    IN IF sum[1] = 0 THEN Eq(f, Zero)
       ELSE f[1] * sum[1] * twice[2] = twice[1] * f[2] * sum[2]

\* C12: on binary arrays evaluate_binary_classifier returns; precision is
\* TP / (TP + FP), and 0 when nothing is predicted positive; recall is
\* TP / (TP + FN), and 0 when nothing is truly positive; f1 is the harmonic
\* mean of the two, and 0 when their sum is 0; accuracy is
\* (TP + TN) / n.
C12_ZeroDivision ==
    Evaluated =>
        /\ last.err = NoErr
        /\ last.metrics # None
        /\ LET m == last.metrics[1]
               tp == Cell(1, 1)
               fp == Cell(0, 1)
               fn == Cell(1, 0)
               tn == Cell(0, 0)
           IN /\ \A k \in BaseNames : IsNumber(m[k])
              /\ Eq(m.accuracy, <<tp + tn, tp + fp + fn + tn>>)
              /\ Eq(m.precision, IF tp + fp = 0 THEN Zero ELSE <<tp, tp + fp>>)
              /\ Eq(m.recall, IF tp + fn = 0 THEN Zero ELSE <<tp, tp + fn>>)
              /\ IsHarmonicMean(m.f1, m.precision, m.recall)

\* No row predicted positive and no row truly positive.
C12_Witness ==
    /\ Evaluated
    /\ Len(last.eval[1].y_true) = MaxLen
    /\ Cell(0, 0) = MaxLen
    /\ last.metrics # None
    /\ last.metrics[1].precision = Zero
    /\ last.metrics[1].recall = Zero
    /\ last.metrics[1].f1 = Zero

InUnitInterval(v) == IsNumber(v) /\ Geq(v, Zero) /\ Geq(<<1, 1>>, v)

\* C13: in every bundle returned, accuracy, precision, recall and f1 lie in
\* [0, 1], and f1 is 0 whenever precision and recall are both 0.
C13_UnitInterval ==
    (Evaluated /\ last.metrics # None) =>
        LET m == last.metrics[1]
        IN /\ \A k \in BaseNames : InUnitInterval(m[k])
           /\ (Eq(m.precision, Zero) /\ Eq(m.recall, Zero)) => Eq(m.f1, Zero)

\* Positives on both sides and not one of them right; every row wrong.
C13_Witness ==
    /\ Evaluated
    /\ last.metrics # None
    /\ Cell(1, 0) > 0 /\ Cell(0, 1) > 0 /\ Cell(1, 1) = 0 /\ Cell(0, 0) = 0
    /\ Eq(last.metrics[1].f1, Zero)
    /\ Eq(last.metrics[1].accuracy, Zero)

\* What predict_needs_upgrade returns for the batch made of input row i
\* alone.
AloneAt(i) ==
    predict_needs_upgrade(last.ret[1], BatchFrame(<<FeaturesOf(df.rows[i])>>),
                          feature_cols, fs).out[1]

\* C14: the labels and the scores predict_needs_upgrade returns are as many
\* as the input rows, and entry i of each is what input row i gets on its
\* own; for a model without predict_proba the score of a row is the
\* model's predicted label as a float and the label is that predicted
\* label.
C14_AlignedOutputs ==
    (last.op = "predict_needs_upgrade" /\ last.out # None) =>
        LET model == last.ret[1]
            out == last.out[1]
        IN /\ Len(out.labels) = Len(df.rows)
           /\ Len(out.proba) = Len(df.rows)
           /\ \A i \in Indices :
                 /\ out.labels[i] = AloneAt(i).labels[1]
                 /\ out.proba[i] = AloneAt(i).proba[1]
                 /\ ~model.has_proba =>
                       /\ out.proba[i] = ToFloat(PredictOne(model, FeaturesOf(df.rows[i])))
                       /\ out.labels[i] = PredictOne(model, FeaturesOf(df.rows[i]))

\* A model without predict_proba on a batch whose rows get different
\* labels.
C14_Witness ==
    /\ last.op = "predict_needs_upgrade"
    /\ last.out # None
    /\ ~last.ret[1].has_proba
    /\ Len(df.rows) = MaxRows
    /\ last.out[1].labels[1] = 1
    /\ last.out[1].labels[MaxRows] = 0
    /\ last.out[1].proba[1] = ToFloat(1)

DigitOf(c) == CHOOSE n \in 0..9 : Digits[n + 1] = c

\* text reads d.ddd and is the number v to three decimal places: the
\* thousandths it shows are within half a thousandth of v.
RendersAs(text, v) ==
    /\ Len(text) = 5
    /\ text[2] = "."
    /\ \A j \in {1, 3, 4, 5} : text[j] \in Range(Digits)
    /\ LET k == 1000 * DigitOf(text[1]) + 100 * DigitOf(text[3])
                 + 10 * DigitOf(text[4]) + DigitOf(text[5])
           diff == 1000 * v[1] - k * v[2]
       IN 2 * diff <= v[2] /\ 2 * (0 - diff) <= v[2]

\* A metric of a bundle is defined when it is there and is not null.
Defined(vals, key) == key \in DOMAIN vals /\ vals[key] # Null

TableColumns == <<"accuracy", "precision", "recall", "f1", "roc_auc">>

\* C15: after the header and the line under it the table has one row per
\* model of the dict, in the dict's order, that starts with the model's
\* name; a metric that is defined shows as its value to three decimal
\* places, and ROC-AUC shows as nan when it is null or absent.
C15_TableRows ==
    (last.op = "metrics_to_markdown_table") =>
        LET d == last.eval[1]
            t == last.out[1]
        IN /\ Len(t) = Len(d) + 2
           /\ t[1] = TableHeader
           /\ \A i \in 1..Len(d) :
                 /\ Len(t[i + 2]) = 6
                 /\ t[i + 2][1] = <<d[i][1]>>
                 /\ \A c \in 1..5 :
                       IF Defined(d[i][2], TableColumns[c])
                       THEN RendersAs(t[i + 2][c + 1], d[i][2][TableColumns[c]])
                       ELSE TableColumns[c] = "roc_auc" => t[i + 2][c + 1] = NanText

\* C16: once the saves to one path have all returned, the file at the path
\* is the artifact of one of the saved pipelines, whole, namely of the save
\* that returned last, and load_model returns a pipeline that answers as
\* that one does -- whether the saves overlapped or not.
C16_LastWriterWins ==
    AllSaved =>
        /\ fs.files[SharedPath] \in { Serialize(writers[w].pipe[1]) : w \in Writers }
        /\ fs.files[SharedPath] = Serialize(saved[SharedPath])
        /\ (last.op = "load_model") =>
              /\ last.err = NoErr
              /\ \A X \in Batches :
                    Answers(last.ret[1], X) = Answers(saved[SharedPath], X)

\* How often the last call made the library call e, and whether each a came
\* before each b.
CountOf(e) == Cardinality({ i \in 1..Len(last.events) : last.events[i] = e })

Before(a, b) ==
    \A i, j \in 1..Len(last.events) :
        (last.events[i] = a /\ last.events[j] = b) => i < j

UsesOfPipeline == {"predict", "predict_proba", "makedirs", "dump"}

\* C17, within one call: a fit call that gets to use its pipeline has built
\* it once and fitted it once, before every predict, predict_proba and the
\* save; the pipeline it returns has been fitted exactly once; load_model
\* and predict_needs_upgrade neither build nor fit; no pipeline that was
\* saved had been fitted twice.
C17_WithinCall ==
    /\ (last.op \in FitOps /\ \E u \in UsesOfPipeline \cup {"fit"} : Called(u)) =>
          /\ CountOf("build_pipeline") = 1
          /\ CountOf("fit") = 1
          /\ Before("build_pipeline", "fit")
          /\ \A u \in UsesOfPipeline : Before("fit", u)
    /\ (last.op \in FitOps /\ last.ret # None) => last.ret[1].nfit = 1
    /\ (last.op \in {"load_model", "predict_needs_upgrade"}) =>
          ~Called("fit") /\ ~Called("build_pipeline")
    /\ \A p \in DOMAIN saved : saved[p].nfit = 1

\* C17, from call to call: the pipeline a fit call returns, and the one
\* load_model returns, is an object no caller held and no save recorded
\* before the call; load_model returns it as often fitted as the artifact
\* says; predict_needs_upgrade leaves the pipeline it is given as it was.
C17_AcrossCalls ==
    /\ (last'.op \in FitOps \cup {"load_model"} /\ last'.ret # None) =>
          last'.ret[1].id \notin LiveIds
    /\ (last'.op = "load_model" /\ last'.ret # None) =>
          last'.ret[1].nfit = ArtifactAt(last'.path).nfit
    /\ (last'.op = "predict_needs_upgrade") => last'.ret = last.ret

\* C17: no pipeline object is fitted more than once or shared between
\* runs: each fit call builds its own new pipeline and fits it exactly once
\* before it predicts with it or saves it, and load_model and
\* predict_needs_upgrade never fit.
C17_FitOnce == [](C17_WithinCall) /\ [][C17_AcrossCalls]_vars

\* A run that returns its pipeline while the pipeline of an earlier run is
\* still recorded as saved.
C17_Witness ==
    /\ last.op = "fit_model_and_evaluate"
    /\ last.ret # None
    /\ last.ret[1].nfit = 1
    /\ DOMAIN saved # {}
    /\ \A p \in DOMAIN saved : saved[p].id # last.ret[1].id /\ saved[p].nfit = 1
    /\ Len(df.rows) = MaxRows

====
